---------------------------- MODULE Spec2Model ----------------------------
(***************************************************************************)
(* A model of src/app.py: SchemaAnalyzer (parse_sql_file, analyze_schema,  *)
(* generate_sample_visualization, generate_dashboard_code) and main.       *)
(*                                                                         *)
(* Text is a sequence of atoms.  An atom is a TLA+ string standing for one *)
(* character of the text or for one fixed fragment of it (a template       *)
(* fragment of the generator, a word of SQL).  Concatenation of text is    *)
(* concatenation of sequences, so what a field value contains is what the  *)
(* generated text contains at that place.                                  *)
(***************************************************************************)
EXTENDS Integers, Sequences, FiniteSets, TLC

VARIABLES
    pc,         \* main: the statement main is at
    inputs,     \* main: the sidebar's inputs (key, file, description)
    schema,     \* main: schema_content
    service,    \* main: what the reasoning service will answer
    metrics,    \* main: the value analyze_schema returned
    idx,        \* main: the loop index of the running for loop
    ui,         \* main: the elements rendered so far, in order
    steps,      \* main: the pipeline steps taken so far, in order
    g_metrics,  \* generate_dashboard_code: its argument
    g_code,     \* generate_dashboard_code: its result
    g_answer,   \* the generated update_metric: the tab asked and the answer
    s_in,       \* parse_sql_file: its argument
    s_out,      \* parse_sql_file: its result
    v_metric,   \* generate_sample_visualization: its argument
    v_rnd,      \* generate_sample_visualization: the random generator's seed
    v_fig       \* generate_sample_visualization: its result

vars == <<pc, inputs, schema, service, metrics, idx, ui, steps,
          g_metrics, g_code, g_answer, s_in, s_out, v_metric, v_rnd, v_fig>>

mainVars == <<pc, inputs, schema, service, metrics, idx, ui, steps>>
genVars  == <<g_metrics, g_code, g_answer>>
sqlVars  == <<s_in, s_out>>
vizVars  == <<v_metric, v_rnd, v_fig>>

-----------------------------------------------------------------------------
(* Bounds of the model.                                                    *)

\* The longest MetricSet the generator is given.
MaxMetrics == 2
\* The longest schema text, in atoms, the Normalizer is given.
MaxSqlLen == 4
\* The number of seeds of the random generator.
MaxSeed == 3

-----------------------------------------------------------------------------
(* Text.                                                                   *)

Q  == "'"
NL == "\n"
BS == "\\"

Digit == <<"0", "1", "2", "3", "4", "5", "6", "7", "8", "9">>

\* str(i) of a natural number: its decimal digits.
RECURSIVE Dec(_)
Dec(i) == IF i < 10 THEN <<Digit[i + 1]>>
          ELSE Dec(i \div 10) \o <<Digit[(i % 10) + 1]>>

Upper == <<"A", "B", "E", "I", "L", "N", "P", "R">>
Lower == <<"a", "b", "e", "i", "l", "n", "p", "r">>

\* str.lower of one character.
LowerChar(c) ==
    IF \E k \in 1..Len(Upper) : Upper[k] = c
    THEN Lower[CHOOSE k \in 1..Len(Upper) : Upper[k] = c]
    ELSE c

\* str.lower.
StrLower(s) == [k \in 1..Len(s) |-> LowerChar(s[k])]

\* The lines of a text: the text between its newlines (str.splitlines).
RECURSIVE SplitLines(_, _)
SplitLines(text, cur) ==
    IF text = <<>> THEN (IF cur = <<>> THEN <<>> ELSE <<cur>>)
    ELSE IF Head(text) = NL THEN <<cur>> \o SplitLines(Tail(text), <<>>)
    ELSE SplitLines(Tail(text), Append(cur, Head(text)))

Lines(text) == SplitLines(text, <<>>)

-----------------------------------------------------------------------------
(* Python values, as json.loads builds them.  Every value is a record      *)
(* [t, v, items]: t its type, v the text of a str or the digits of an int, *)
(* items the elements of a list or the <<key, value>> items of a dict in   *)
(* insertion order.                                                        *)

PyStr(s)   == [t |-> "str",  v |-> s,    items |-> <<>>]
PyNum(s)   == [t |-> "int",  v |-> s,    items |-> <<>>]
PyNone     == [t |-> "None", v |-> <<>>, items |-> <<>>]
PyList(xs) == [t |-> "list", v |-> <<>>, items |-> xs]
PyDict(kv) == [t |-> "dict", v |-> <<>>, items |-> kv]

\* The result of an evaluation: a value, or the exception it raised.
Ret(x)   == [exc |-> "", val |-> x]
Raise(e) == [exc |-> e,  val |-> PyNone]

HasKey(d, k) == \E j \in 1..Len(d.items) : d.items[j][1] = k

DictGet(d, k) == d.items[CHOOSE j \in 1..Len(d.items) : d.items[j][1] = k][2]

\* d[k] = x: a key already there keeps its place and takes the new value.
DictSet(kv, k, x) ==
    IF \E j \in 1..Len(kv) : kv[j][1] = k
    THEN [j \in 1..Len(kv) |-> IF kv[j][1] = k THEN <<k, x>> ELSE kv[j]]
    ELSE Append(kv, <<k, x>>)

\* obj[key] for a str key.
Subscript(obj, k) ==
    IF obj.t = "dict"
    THEN (IF HasKey(obj, k) THEN Ret(DictGet(obj, k)) ELSE Raise("KeyError"))
    ELSE Raise("TypeError")

\* The values a for loop over obj visits; iterating a dict visits its keys,
\* iterating a str its characters.
Iterate(obj) ==
    CASE obj.t = "list" -> Ret(obj.items)
      [] obj.t = "dict" -> Ret([j \in 1..Len(obj.items) |-> PyStr(obj.items[j][1])])
      [] obj.t = "str"  -> Ret([j \in 1..Len(obj.v) |-> PyStr(<<obj.v[j]>>)])
      [] OTHER          -> Raise("TypeError")

\* What an f-string puts for {x}: str(x).  The metric fields of the model are
\* str, int or None; a container is put as one atom standing for its repr.
Format(x) ==
    CASE x.t = "str"  -> x.v
      [] x.t = "int"  -> x.v
      [] x.t = "None" -> <<"None">>
      [] OTHER        -> <<"<repr>">>

-----------------------------------------------------------------------------
(* generate_dashboard_code (lines 79-164).  The fixed parts of its         *)
(* template are atoms; the quotes and newlines around the interpolated     *)
(* fields are atoms of their own, as the fields may hold them too.         *)

Boilerplate == "import dash ... html.Div(["
TabsOpen    == "        dcc.Tabs(id='metric-tabs', value="
TabsKids    == ", children=["
TabOpen     == "            dcc.Tab(label="
TabValue    == ", value="
TabPrefix   == "tab-"
TabClose    == "),"
TabsClose   == "        ]), ... def update_metric(tab):"
TableOpen   == "    metrics = {"
EntryIndent == "        "
EntryOpen   == ": {"
NameOpen    == "            'name': "
QueryOpen   == "            'query': "
TypeOpen    == "            'type': "
Comma       == ","
EntryClose  == "        },"
TableClose  == "    }"
Routine     == "    if tab not in metrics: ... app.run_server(debug=True)"

\* Lines 81-109.
Header ==
    <<Boilerplate, NL, TabsOpen, Q, TabPrefix, "0", Q, TabsKids, NL>>

\* Line 113 with the index left out of the identifier: every tab is tab-0.
TabLine_FirstIdOnly(name, i) ==
    <<TabOpen, Q>> \o name \o <<Q, TabValue, Q, TabPrefix>> \o Dec(0)
        \o <<Q, TabClose, NL>>

\* Line 113, for the metric at index i.
TabLine(name, i) ==
    <<TabOpen, Q>> \o name \o <<Q, TabValue, Q, TabPrefix>> \o Dec(i)
        \o <<Q, TabClose, NL>>

\* Lines 115-126.
Middle == <<TabsClose, NL, TableOpen, NL>>

\* Lines 130-134, for the metric at index i.
EntryLines(name, query, type, i) ==
    <<EntryIndent, Q, TabPrefix>> \o Dec(i) \o <<Q, EntryOpen, NL>>
        \o <<NameOpen, Q>> \o name \o <<Q, Comma, NL>>
        \o <<QueryOpen, Q, Q, Q>> \o query \o <<Q, Q, Q, Comma, NL>>
        \o <<TypeOpen, Q>> \o type \o <<Q, NL>>
        \o <<EntryClose, NL>>

\* Lines 136-163.
Footer == <<TableClose, NL, Routine, NL>>

KMetrics == <<"metrics">>
KName    == <<"name">>
KDescr   == <<"description">>
KQuery   == <<"sql_query">>
KType    == <<"visualization_type">>
KFreq    == <<"update_frequency">>

\* The loop of lines 112-113 over ms, the first of which has index i.
RECURSIVE TabLoop(_, _)
TabLoop(ms, i) ==
    IF ms = <<>> THEN Ret(<<>>)
    ELSE LET name == Subscript(Head(ms), KName) IN
         IF name.exc # "" THEN Raise(name.exc)
         ELSE LET rest == TabLoop(Tail(ms), i + 1) IN
              IF rest.exc # "" THEN rest
              ELSE Ret(TabLine(Format(name.val), i) \o rest.val)

\* The loop of lines 129-134 over ms, the first of which has index i.
RECURSIVE EntryLoop(_, _)
EntryLoop(ms, i) ==
    IF ms = <<>> THEN Ret(<<>>)
    ELSE LET name  == Subscript(Head(ms), KName)
             query == Subscript(Head(ms), KQuery)
             type  == Subscript(Head(ms), KType)
         IN
         IF name.exc # "" THEN Raise(name.exc)
         ELSE IF query.exc # "" THEN Raise(query.exc)
         ELSE IF type.exc # "" THEN Raise(type.exc)
         ELSE LET rest == EntryLoop(Tail(ms), i + 1) IN
              IF rest.exc # "" THEN rest
              ELSE Ret(EntryLines(Format(name.val), Format(query.val),
                                  Format(type.val), i) \o rest.val)

\* The text the function returns, or the exception it raises.
generate_dashboard_code(m) ==
    LET list == Subscript(m, KMetrics) IN
    IF list.exc # "" THEN Raise(list.exc)
    ELSE LET ms == Iterate(list.val) IN
         IF ms.exc # "" THEN Raise(ms.exc)
         ELSE LET tabs == TabLoop(ms.val, 0) IN
              IF tabs.exc # "" THEN tabs
              ELSE LET entries == EntryLoop(ms.val, 0) IN
                   IF entries.exc # "" THEN entries
                   ELSE Ret(Header \o tabs.val \o Middle \o entries.val
                                \o Footer)

-----------------------------------------------------------------------------
(* The generated text as Python reads it: the string literals of the tab   *)
(* declarations (line 113) and of the lookup table (lines 130-134), and    *)
(* the update routine over that table (lines 125-159).                     *)

NoRead == [ok |-> FALSE, val |-> <<>>, next |-> 0]

\* The body of a string literal from position j on, up to its closing quote
\* (three quotes when triple): a backslash takes the next character with it,
\* a newline ends a single-quoted literal in error.
RECURSIVE ScanStr(_, _, _, _)
ScanStr(text, j, triple, acc) ==
    IF j > Len(text) THEN NoRead
    ELSE IF text[j] = BS
    THEN (IF j + 1 > Len(text) THEN NoRead
          ELSE ScanStr(text, j + 2, triple,
                       acc \o (IF text[j + 1] \in {Q, BS} THEN <<text[j + 1]>>
                               ELSE <<BS, text[j + 1]>>)))
    ELSE IF triple
    THEN (IF j + 2 <= Len(text) /\ text[j] = Q /\ text[j + 1] = Q
             /\ text[j + 2] = Q
          THEN [ok |-> TRUE, val |-> acc, next |-> j + 3]
          ELSE ScanStr(text, j + 1, triple, Append(acc, text[j])))
    ELSE IF text[j] = Q THEN [ok |-> TRUE, val |-> acc, next |-> j + 1]
    ELSE IF text[j] = NL THEN NoRead
    ELSE ScanStr(text, j + 1, triple, Append(acc, text[j]))

\* The string literal that opens at position i.
ReadStr(text, i) ==
    IF i > Len(text) \/ text[i] # Q THEN NoRead
    ELSE IF i + 2 <= Len(text) /\ text[i + 1] = Q /\ text[i + 2] = Q
    THEN ScanStr(text, i + 3, TRUE, <<>>)
    ELSE ScanStr(text, i + 1, FALSE, <<>>)

StrHere == "<string literal>"

\* The text from position i on read against a pattern of fixed atoms and
\* string literals; val is the literals' values, in order.
RECURSIVE Match(_, _, _, _)
Match(text, i, pat, caps) ==
    IF pat = <<>> THEN [ok |-> TRUE, val |-> caps, next |-> i]
    ELSE IF Head(pat) = StrHere
    THEN LET r == ReadStr(text, i) IN
         IF ~r.ok THEN NoRead
         ELSE Match(text, r.next, Tail(pat), Append(caps, r.val))
    ELSE IF i <= Len(text) /\ text[i] = Head(pat)
    THEN Match(text, i + 1, Tail(pat), caps)
    ELSE NoRead

HeaderPattern == <<Boilerplate, NL, TabsOpen, StrHere, TabsKids, NL>>
TabPattern    == <<TabOpen, StrHere, TabValue, StrHere, TabClose, NL>>
MiddlePattern == Middle
EntryPattern  ==
    <<EntryIndent, StrHere, EntryOpen, NL, NameOpen, StrHere, Comma, NL,
      QueryOpen, StrHere, Comma, NL, TypeOpen, StrHere, NL, EntryClose, NL>>
FooterPattern == Footer

\* The run of items matching pat that starts at position i.
RECURSIVE MatchMany(_, _, _, _, _)
MatchMany(text, i, pat, first, acc) ==
    IF i <= Len(text) /\ text[i] = first
    THEN LET r == Match(text, i, pat, <<>>) IN
         IF ~r.ok THEN NoRead
         ELSE MatchMany(text, r.next, pat, first, Append(acc, r.val))
    ELSE [ok |-> TRUE, val |-> acc, next |-> i]

NoCode == [ok |-> FALSE, selected |-> <<>>, tabs |-> <<>>, table |-> <<>>]

\* The generated module as Python reads it: the tab selected at start, the
\* tabs <<label, value>> and the table's items <<key, name, query, type>>;
\* not ok when the text is no such module (a SyntaxError at import).
ReadCode(text) ==
    LET h == Match(text, 1, HeaderPattern, <<>>) IN
    IF ~h.ok THEN NoCode ELSE
    LET t == MatchMany(text, h.next, TabPattern, TabOpen, <<>>) IN
    IF ~t.ok THEN NoCode ELSE
    LET m == Match(text, t.next, MiddlePattern, <<>>) IN
    IF ~m.ok THEN NoCode ELSE
    LET e == MatchMany(text, m.next, EntryPattern, EntryIndent, <<>>) IN
    IF ~e.ok THEN NoCode ELSE
    LET f == Match(text, e.next, FooterPattern, <<>>) IN
    IF ~f.ok \/ f.next # Len(text) + 1 THEN NoCode
    ELSE [ok |-> TRUE, selected |-> h.val[1], tabs |-> t.val, table |-> e.val]

NoMetricSelected == "No metric selected"
QueryExecuted    == "query executed"
SyntaxError      == "SyntaxError"

\* Line 138 with its test inverted: `if tab in metrics`.
update_metric_Inverted(text, tab) ==
    LET code == ReadCode(text) IN
    IF ~code.ok THEN SyntaxError
    ELSE IF \E j \in 1..Len(code.table) : code.table[j][1] = tab
    THEN NoMetricSelected
    ELSE QueryExecuted

\* update_metric(tab) of the generated module (lines 125-159): the answer is
\* "No metric selected" when tab is no key of the table, and otherwise what
\* the query-execution step renders (a graph, or its error message).
update_metric(text, tab) ==
    LET code == ReadCode(text) IN
    IF ~code.ok THEN SyntaxError
    ELSE IF \A j \in 1..Len(code.table) : code.table[j][1] # tab
    THEN NoMetricSelected
    ELSE QueryExecuted

-----------------------------------------------------------------------------
(* parse_sql_file (lines 16-19).  sqlparse is a library: its parse and     *)
(* get_type are modelled on the texts made of the atoms below, which hold  *)
(* no parenthesis, comment or BEGIN block.  A word is a maximal run of     *)
(* word atoms; it is a keyword when it is one keyword atom alone.          *)

SqlDDL   == "CREATE"
SqlDML   == "SELECT"
SqlName  == "x"
SqlSemi  == ";"
SqlSpace == " "

SqlWordAtoms  == {SqlDDL, SqlDML, SqlName}
SqlWhitespace == {SqlSpace, NL}
SqlAtoms      == SqlWordAtoms \cup SqlWhitespace \cup {SqlSemi}

\* sqlparse's statement splitter: a statement ends after a semicolon and the
\* spaces that follow it; a pending statement of whitespace alone is dropped.
RECURSIVE SplitStatements(_, _, _)
SplitStatements(text, cur, consume_ws) ==
    IF text = <<>>
    THEN (IF \E j \in 1..Len(cur) : cur[j] \notin SqlWhitespace
          THEN <<cur>> ELSE <<>>)
    ELSE IF consume_ws /\ Head(text) # SqlSpace
    THEN <<cur>> \o SplitStatements(text, <<>>, FALSE)
    ELSE SplitStatements(Tail(text), Append(cur, Head(text)),
                         consume_ws \/ Head(text) = SqlSemi)

\* sqlparse.parse(sql_content) (line 17): the statements, as their text.
sqlparse_parse(text) == SplitStatements(text, <<>>, FALSE)

\* The first word of a text, after its leading whitespace.
RECURSIVE FirstWord(_, _)
FirstWord(text, word) ==
    IF text = <<>> THEN word
    ELSE IF Head(text) \in SqlWordAtoms
    THEN FirstWord(Tail(text), Append(word, Head(text)))
    ELSE IF word = <<>> /\ Head(text) \in SqlWhitespace
    THEN FirstWord(Tail(text), word)
    ELSE word

\* stmt.get_type() (line 18): the statement's first token when that is a DDL
\* or DML keyword, and 'UNKNOWN' otherwise.
get_type(stmt) ==
    LET w == FirstWord(stmt, <<>>) IN
    IF w = <<SqlDDL>> THEN SqlDDL
    ELSE IF w = <<SqlDML>> THEN SqlDML
    ELSE "UNKNOWN"

\* sep.join(parts).
RECURSIVE Join(_, _)
Join(sep, parts) ==
    IF parts = <<>> THEN <<>>
    ELSE IF Len(parts) = 1 THEN parts[1]
    ELSE parts[1] \o sep \o Join(sep, Tail(parts))

\* Line 18 with its test inverted: the unrecognized statements are the kept.
parse_sql_file_KeepsUnknown(sql_content) ==
    LET parsed == sqlparse_parse(sql_content) IN
    Ret(Join(<<NL>>, SelectSeq(parsed, LAMBDA stmt : get_type(stmt) = "UNKNOWN")))

parse_sql_file(sql_content) ==
    LET parsed == sqlparse_parse(sql_content) IN
    Ret(Join(<<NL>>, SelectSeq(parsed, LAMBDA stmt : get_type(stmt) # "UNKNOWN")))

-----------------------------------------------------------------------------
(* generate_sample_visualization (lines 50-77).  numpy's generator is a    *)
(* function of its seed: the i-th draw of a run is fixed by the seed.  A   *)
(* normal draw is an integer within three deviations of the mean.          *)

SamplePoints == 30
PieSlices    == 4
RandLow      == 10
RandHigh     == 100
NormalMean   == 10
NormalStd    == 2
FigHeight    == 400

\* np.random.randint(RandLow, RandHigh, n): n integers in [RandLow, RandHigh).
RandInt(seed, n) ==
    [i \in 1..n |-> RandLow + ((seed * 31 + i * 17) % (RandHigh - RandLow))]

\* np.random.normal(NormalMean, NormalStd, n).
RandNormal(seed, n) ==
    [i \in 1..n |->
        (NormalMean - 3 * NormalStd) + ((seed * 13 + i * 7) % (6 * NormalStd + 1))]

\* np.cumsum.
RECURSIVE CumSum(_)
CumSum(xs) ==
    IF Len(xs) <= 1 THEN xs
    ELSE LET front == CumSum(SubSeq(xs, 1, Len(xs) - 1)) IN
         Append(front, front[Len(front)] + xs[Len(xs)])

KindLine == <<"l", "i", "n", "e">>
KindBar  == <<"b", "a", "r">>
KindPie  == <<"p", "i", "e">>

PieLabels == <<"Category A", "Category B", "Category C", "Category D">>

\* A figure: its chart kind, its number of dates, its values, its labels (a
\* pie's), its title and the height of its layout.
Figure(chart, dates, values, labels, title) ==
    [chart |-> chart, x |-> dates, y |-> values, names |-> labels,
     title |-> title, height |-> FigHeight]

\* x.lower() of line 55: a value that is no str has no such method.
LowerOf(x) == IF x.t = "str" THEN Ret(StrLower(x.v)) ELSE Raise("AttributeError")

\* Lines 55-70 with the kind compared as it is written, not lower-cased.
generate_sample_visualization_NoLower(metric, seed) ==
    LET type == Subscript(metric, KType)
        name == Subscript(metric, KName)
    IN
    IF type.exc # "" THEN Raise(type.exc)
    ELSE IF type.val.t # "str" THEN Raise("AttributeError")
    ELSE IF name.exc # "" THEN Raise(name.exc)
    ELSE IF type.val.v = KindLine
    THEN Ret(Figure("line", SamplePoints, CumSum(RandNormal(seed, SamplePoints)),
                    <<>>, name.val))
    ELSE IF type.val.v = KindBar
    THEN Ret(Figure("bar", SamplePoints, RandInt(seed, SamplePoints), <<>>, name.val))
    ELSE IF type.val.v = KindPie
    THEN Ret(Figure("pie", 0, RandInt(seed, PieSlices), PieLabels, name.val))
    ELSE Ret(Figure("scatter", SamplePoints, RandInt(seed, SamplePoints),
                    <<>>, name.val))

\* The figure the function returns, or the exception it raises.
generate_sample_visualization(metric, seed) ==
    LET type == Subscript(metric, KType)
        name == Subscript(metric, KName)
    IN
    IF type.exc # "" THEN Raise(type.exc)
    ELSE LET kind == LowerOf(type.val) IN
    IF kind.exc # "" THEN Raise(kind.exc)
    ELSE IF name.exc # "" THEN Raise(name.exc)
    ELSE IF kind.val = KindLine
    THEN Ret(Figure("line", SamplePoints, CumSum(RandNormal(seed, SamplePoints)),
                    <<>>, name.val))
    ELSE IF kind.val = KindBar
    THEN Ret(Figure("bar", SamplePoints, RandInt(seed, SamplePoints), <<>>, name.val))
    ELSE IF kind.val = KindPie
    THEN Ret(Figure("pie", 0, RandInt(seed, PieSlices), PieLabels, name.val))
    ELSE Ret(Figure("scatter", SamplePoints, RandInt(seed, SamplePoints),
                    <<>>, name.val))

-----------------------------------------------------------------------------
(* MetricSets (lines 29-40: the shape the prompt asks for).                *)

Metric(name, descr, query, type, freq) ==
    PyDict(<<<<KName, PyStr(name)>>, <<KDescr, PyStr(descr)>>,
             <<KQuery, PyStr(query)>>, <<KType, PyStr(type)>>,
             <<KFreq, PyStr(freq)>>>>)

MetricSet(ms) == PyDict(<<<<KMetrics, PyList(ms)>>>>)

\* The metrics of a MetricSet, and a field of one as text.
MetricsOf(m) == DictGet(m, KMetrics).items
Field(metric, k) == DictGet(metric, k).v

\* Sequences over S of length at most n.
SeqUpTo(S, n) == UNION {[1..k -> S] : k \in 0..n}

\* Field values: plain ones, and ones that hold a quote, a backslash, a
\* newline or a piece of the template itself.
NamePool  == {<<"k">>, <<"k", "m">>, <<Q>>, <<"m", BS>>, <<NL, TabOpen>>}
QueryPool == {<<"s">>, <<"s", NL, "t", Q>>}
TypePool  == {<<"l", "i", "n", "e">>, <<"B", "a", "r">>}

MetricPool ==
    {Metric(n, <<"d">>, q, t, <<"f">>) :
        n \in NamePool, q \in QueryPool, t \in TypePool}

MetricSets == {MetricSet(ms) : ms \in SeqUpTo(MetricPool, MaxMetrics)}

NotCalled == [exc |-> "<not called>", val |-> PyNone]
NotAsked  == <<>>

Called(r) == r.exc # "<not called>"
Returned(r) == r.exc = ""

\* The tab identifiers the generated routine is asked about.
TabArgs == {<<TabPrefix>> \o Dec(i) : i \in 0..MaxMetrics} \cup {<<>>}

MainIdle == /\ pc = "idle" /\ inputs = <<>> /\ schema = <<>> /\ service = <<>>
            /\ metrics = NotCalled /\ idx = 0 /\ ui = <<>> /\ steps = <<>>
GenIdle  == /\ g_metrics = PyNone /\ g_code = NotCalled /\ g_answer = NotAsked
SqlIdle  == /\ s_in = <<>> /\ s_out = NotCalled
VizIdle  == /\ v_metric = PyNone /\ v_rnd = 0 /\ v_fig = NotCalled

\* A call of generate_dashboard_code.
GenInit ==
    /\ g_metrics \in MetricSets
    /\ g_code = NotCalled
    /\ g_answer = NotAsked
    /\ MainIdle /\ SqlIdle /\ VizIdle

Generate ==
    /\ ~Called(g_code)
    /\ g_code' = generate_dashboard_code(g_metrics)
    /\ UNCHANGED <<g_metrics, g_answer, mainVars, sqlVars, vizVars>>

\* The generated module, run: its routine is asked about a tab.
Update ==
    /\ Called(g_code) /\ Returned(g_code)
    /\ \E tab \in TabArgs :
          g_answer' = <<tab, update_metric(g_code.val, tab)>>
    /\ UNCHANGED <<g_metrics, g_code, mainVars, sqlVars, vizVars>>

GenNext == Generate \/ Update

SpecGen == GenInit /\ [][GenNext]_vars

-----------------------------------------------------------------------------
(* Properties of generate_dashboard_code, under SpecGen.                   *)

IsPrefix(p, s) == Len(p) <= Len(s) /\ SubSeq(s, 1, Len(p)) = p

\* The lines of a text that declare a tab, and those that open a table entry.
TabDeclarations(text) ==
    SelectSeq(Lines(text), LAMBDA l : Len(l) >= 1 /\ l[1] = TabOpen)
EntryOpenings(text) ==
    SelectSeq(Lines(text), LAMBDA l : Len(l) >= 2 /\ l[1] = EntryIndent /\ l[2] = Q)

TabId(i) == <<TabPrefix>> \o Dec(i)

Delimiters == {Q, BS, NL}
DelimiterFree(s) == \A j \in 1..Len(s) : s[j] \notin Delimiters
DelimiterFreeSet(m) ==
    \A j \in 1..Len(MetricsOf(m)) :
        /\ DelimiterFree(Field(MetricsOf(m)[j], KName))
        /\ DelimiterFree(Field(MetricsOf(m)[j], KQuery))
        /\ DelimiterFree(Field(MetricsOf(m)[j], KType))

\* C1: for every MetricSet of N metrics the generated text holds exactly N
\* tab-declaration lines and exactly N table entries, the i-th of each being
\* the i-th metric's (its name, its identifier tab-(i-1)).
C1_ExactlyNTabsAndEntries ==
    (Called(g_code) /\ Returned(g_code)) =>
        LET ms   == MetricsOf(g_metrics)
            tabs == TabDeclarations(g_code.val)
            ents == EntryOpenings(g_code.val)
        IN  /\ Len(tabs) = Len(ms)
            /\ Len(ents) = Len(ms)
            /\ \A i \in 1..Len(ms) :
                  /\ IsPrefix(<<TabOpen, Q>> \o Field(ms[i], KName), tabs[i])
                  /\ IsPrefix(<<EntryIndent, Q>> \o TabId(i - 1), ents[i])

\* C6: for field values free of the template's delimiters, the text read
\* back declares for the metric at index i the tab tab-i labelled with its
\* name and holds under the key tab-i its name, sql_query and
\* visualization_type; no two metrics share an identifier.
C6_TabAndEntryPerMetric ==
    (Called(g_code) /\ DelimiterFreeSet(g_metrics)) =>
        LET ms   == MetricsOf(g_metrics)
            code == ReadCode(g_code.val)
        IN  /\ Returned(g_code)
            /\ code.ok
            /\ Len(code.tabs) = Len(ms)
            /\ Len(code.table) = Len(ms)
            /\ \A i \in 1..Len(ms) :
                  /\ code.tabs[i] = <<Field(ms[i], KName), TabId(i - 1)>>
                  /\ code.table[i] = <<TabId(i - 1), Field(ms[i], KName),
                                       Field(ms[i], KQuery), Field(ms[i], KType)>>
            /\ \A i, j \in 1..Len(ms) :
                  i # j => code.tabs[i][2] # code.tabs[j][2]

C6_Witness ==
    /\ Called(g_code) /\ DelimiterFreeSet(g_metrics)
    /\ Len(MetricsOf(g_metrics)) = 2
    /\ Field(MetricsOf(g_metrics)[1], KName) # Field(MetricsOf(g_metrics)[2], KName)
    /\ Field(MetricsOf(g_metrics)[1], KType) # Field(MetricsOf(g_metrics)[2], KType)

\* C9: for an empty MetricSet the text is the whole boilerplate with no tab
\* declaration and an empty table, and its update routine answers "No metric
\* selected" to every tab identifier, the one selected at start included.
C9_EmptySetNoMetricSelected ==
    (Called(g_code) /\ MetricsOf(g_metrics) = <<>>) =>
        /\ Returned(g_code)
        /\ g_code.val = Header \o Middle \o Footer
        /\ TabDeclarations(g_code.val) = <<>>
        /\ EntryOpenings(g_code.val) = <<>>
        /\ ReadCode(g_code.val).ok
        /\ ReadCode(g_code.val).table = <<>>
        /\ ReadCode(g_code.val).selected = TabId(0)
        /\ update_metric(g_code.val, ReadCode(g_code.val).selected) = NoMetricSelected
        /\ g_answer # NotAsked => g_answer[2] = NoMetricSelected

C9_Witness ==
    /\ Called(g_code) /\ MetricsOf(g_metrics) = <<>>
    /\ g_answer # NotAsked
    /\ g_answer[1] = TabId(0)
    /\ g_answer[2] = NoMetricSelected

-----------------------------------------------------------------------------
(* json.loads (line 48).  The reply text is a sequence of JSON tokens: the *)
(* punctuation, strings, numbers, null, and words that are no JSON at all. *)

Tok(k, v) == [k |-> k, v |-> v]
LBrace == Tok("p", <<"{">>)
RBrace == Tok("p", <<"}">>)
LBrack == Tok("p", <<"[">>)
RBrack == Tok("p", <<"]">>)
Colon  == Tok("p", <<":">>)
CommaT == Tok("p", <<",">>)
NullT  == Tok("null", <<>>)
StrT(s)  == Tok("s", s)
NumT(s)  == Tok("n", s)
WordT(s) == Tok("w", s)

NoValue == [ok |-> FALSE, val |-> PyNone, next |-> 0]
Value(x, next) == [ok |-> TRUE, val |-> x, next |-> next]

IsTok(toks, i, t) == i <= Len(toks) /\ toks[i] = t

\* The JSON value that starts at token i; the members of an object and the
\* elements of an array after their opening bracket.
RECURSIVE ParseValue(_, _), ParseMembers(_, _, _), ParseElements(_, _, _)
ParseValue(toks, i) ==
    IF i > Len(toks) THEN NoValue
    ELSE CASE toks[i].k = "s"    -> Value(PyStr(toks[i].v), i + 1)
           [] toks[i].k = "n"    -> Value(PyNum(toks[i].v), i + 1)
           [] toks[i].k = "null" -> Value(PyNone, i + 1)
           [] toks[i] = LBrace   ->
                IF IsTok(toks, i + 1, RBrace) THEN Value(PyDict(<<>>), i + 2)
                ELSE ParseMembers(toks, i + 1, <<>>)
           [] toks[i] = LBrack   ->
                IF IsTok(toks, i + 1, RBrack) THEN Value(PyList(<<>>), i + 2)
                ELSE ParseElements(toks, i + 1, <<>>)
           [] OTHER -> NoValue

ParseMembers(toks, i, acc) ==
    IF ~(i + 1 <= Len(toks) /\ toks[i].k = "s" /\ toks[i + 1] = Colon)
    THEN NoValue
    ELSE LET r == ParseValue(toks, i + 2) IN
         IF ~r.ok THEN NoValue
         ELSE LET kv == DictSet(acc, toks[i].v, r.val) IN
              IF IsTok(toks, r.next, CommaT)
              THEN ParseMembers(toks, r.next + 1, kv)
              ELSE IF IsTok(toks, r.next, RBrace)
              THEN Value(PyDict(kv), r.next + 1)
              ELSE NoValue

ParseElements(toks, i, acc) ==
    LET r == ParseValue(toks, i) IN
    IF ~r.ok THEN NoValue
    ELSE IF IsTok(toks, r.next, CommaT)
    THEN ParseElements(toks, r.next + 1, Append(acc, r.val))
    ELSE IF IsTok(toks, r.next, RBrack)
    THEN Value(PyList(Append(acc, r.val)), r.next + 1)
    ELSE NoValue

\* json.loads(text): the value of the whole text, or JSONDecodeError.
json_loads(toks) ==
    LET r == ParseValue(toks, 1) IN
    IF r.ok /\ r.next = Len(toks) + 1 THEN Ret(r.val)
    ELSE Raise("JSONDecodeError")

\* Lines 42-48 with a failed decoding answered by an empty MetricSet.
analyze_schema_EmptyOnError(schema_content, description, reply) ==
    IF reply.kind = "error" THEN Raise("APIError")
    ELSE IF reply.kind = "empty" THEN Raise("IndexError")
    ELSE IF json_loads(reply.text).exc # ""
    THEN Ret(PyDict(<<<<KMetrics, PyList(<<>>)>>>>))
    ELSE json_loads(reply.text)

\* analyze_schema (lines 21-48), given what the service answers to the one
\* request of lines 42-46: an error raised by the call, a response without
\* content, or a response whose first content is a text.
analyze_schema(schema_content, description, reply) ==
    IF reply.kind = "error" THEN Raise("APIError")
    ELSE IF reply.kind = "empty" THEN Raise("IndexError")
    ELSE json_loads(reply.text)

-----------------------------------------------------------------------------
(* A call of parse_sql_file.                                               *)

SqlTexts == SeqUpTo(SqlAtoms, MaxSqlLen)

SqlInit ==
    /\ s_in \in SqlTexts
    /\ s_out = NotCalled
    /\ MainIdle /\ GenIdle /\ VizIdle

Normalize ==
    /\ ~Called(s_out)
    /\ s_out' = parse_sql_file(s_in)
    /\ UNCHANGED <<s_in, mainVars, genVars, vizVars>>

SqlNext == Normalize

SpecSql == SqlInit /\ [][SqlNext]_vars

\* The statements of the input that are recognized, in input order.
Recognized(text) ==
    LET stmts == sqlparse_parse(text)
        at == {j \in 1..Len(stmts) : get_type(stmts[j]) # "UNKNOWN"}
    IN  [r \in 1..Cardinality(at) |->
            stmts[CHOOSE j \in at : Cardinality({h \in at : h <= j}) = r]]

\* Where the r-th statement of kept starts in the output: after the earlier
\* ones and one newline for each.
RECURSIVE StartOf(_, _)
StartOf(kept, r) ==
    IF r = 1 THEN 1 ELSE StartOf(kept, r - 1) + Len(kept[r - 1]) + 1

\* C7: parse_sql_file returns the recognized statements of its input, each
\* once and in input order, with one newline between two of them; the empty
\* string when there is none; and it raises on no input.
C7_RecognizedStatementsInOrder ==
    Called(s_out) =>
        LET kept == Recognized(s_in)
            n    == Len(kept)
            out  == s_out.val
        IN  /\ Returned(s_out)
            /\ n = 0 => out = <<>>
            /\ s_in = <<>> => out = <<>>
            /\ n > 0 => Len(out) = StartOf(kept, n) + Len(kept[n]) - 1
            /\ \A r \in 1..n :
                  /\ SubSeq(out, StartOf(kept, r),
                            StartOf(kept, r) + Len(kept[r]) - 1) = kept[r]
                  /\ r < n => out[StartOf(kept, r) + Len(kept[r])] = NL

C7_Witness ==
    /\ Called(s_out)
    /\ Len(sqlparse_parse(s_in)) = 3
    /\ Len(Recognized(s_in)) = 2
    /\ get_type(sqlparse_parse(s_in)[2]) = "UNKNOWN"

-----------------------------------------------------------------------------
(* A call of generate_sample_visualization.                                *)

KindPool ==
    {KindLine, KindBar, KindPie, <<"L", "I", "N", "E">>, <<"L", "i", "n", "e">>,
     <<"B", "A", "R">>, <<"P", "i", "e">>, <<"s", "c", "a", "t", "t", "e", "r">>,
     <<>>, <<"a", "r", "e", "a">>, <<"l", "i", "n", "e", "s">>}

\* The kinds the service may give: strings, and values that are none.
KindValues == {PyStr(k) : k \in KindPool} \cup {PyNum(<<"5">>), PyNone}

VizMetrics ==
    {PyDict(<<<<KName, PyStr(n)>>, <<KDescr, PyStr(<<"d">>)>>,
              <<KQuery, PyStr(<<"s">>)>>, <<KType, k>>,
              <<KFreq, PyStr(<<"f">>)>>>>) :
        n \in {<<"k">>, <<"k", "m">>}, k \in KindValues}

VizInit ==
    /\ v_metric \in VizMetrics
    /\ v_rnd \in 1..MaxSeed
    /\ v_fig = NotCalled
    /\ MainIdle /\ GenIdle /\ SqlIdle

Visualize ==
    /\ ~Called(v_fig)
    /\ v_fig' = generate_sample_visualization(v_metric, v_rnd)
    /\ UNCHANGED <<v_metric, v_rnd, mainVars, genVars, sqlVars>>

VizNext == Visualize

SpecViz == VizInit /\ [][VizNext]_vars

KindOf(metric) == DictGet(metric, KType)
SameIgnoringCase(a, b) == StrLower(a) = StrLower(b)

\* C8 as stated: for a kind that is a string the call never raises; `line`
\* and `bar` give a 30-point series, `pie` 4 values, and every other string
\* the 30-point scatter chart.
C8_AsStated ==
    (Called(v_fig) /\ KindOf(v_metric).t = "str") =>
        LET kind == KindOf(v_metric).v IN
        /\ Returned(v_fig)
        /\ kind = KindLine => v_fig.val.chart = "line" /\ Len(v_fig.val.y) = 30
        /\ kind = KindBar => v_fig.val.chart = "bar" /\ Len(v_fig.val.y) = 30
        /\ kind = KindPie => v_fig.val.chart = "pie" /\ Len(v_fig.val.y) = 4
        /\ kind \notin {KindLine, KindBar, KindPie} =>
              v_fig.val.chart = "scatter" /\ Len(v_fig.val.y) = 30

\* C8, amended: the kind is compared ignoring letter case.  A kind that is
\* line or bar up to case gives that chart with a 30-point series, one that
\* is pie up to case a pie of 4 values, and every other string the 30-point
\* scatter chart; no string makes the call raise.
C8_KindIgnoringCase ==
    (Called(v_fig) /\ KindOf(v_metric).t = "str") =>
        LET kind == KindOf(v_metric).v IN
        /\ Returned(v_fig)
        /\ v_fig.val.title = DictGet(v_metric, KName)
        /\ SameIgnoringCase(kind, KindLine) =>
              v_fig.val.chart = "line" /\ Len(v_fig.val.y) = 30 /\ v_fig.val.x = 30
        /\ SameIgnoringCase(kind, KindBar) =>
              v_fig.val.chart = "bar" /\ Len(v_fig.val.y) = 30 /\ v_fig.val.x = 30
        /\ SameIgnoringCase(kind, KindPie) =>
              v_fig.val.chart = "pie" /\ Len(v_fig.val.y) = 4
                  /\ Len(v_fig.val.names) = 4
        /\ (\A k \in {KindLine, KindBar, KindPie} : ~SameIgnoringCase(kind, k)) =>
              v_fig.val.chart = "scatter" /\ Len(v_fig.val.y) = 30
                  /\ v_fig.val.x = 30

C8_Witness ==
    /\ Called(v_fig) /\ Returned(v_fig)
    /\ KindOf(v_metric) = PyStr(<<"P", "i", "e">>)
    /\ v_fig.val.chart = "pie"

-----------------------------------------------------------------------------
(* main (lines 166-239): one run of the script, which is one request.      *)

\* The text of a value as JSON (what the service writes when it answers in
\* the shape the prompt asks for).
RECURSIVE Dumps(_), DumpItems(_, _)
Dumps(x) ==
    CASE x.t = "str"  -> <<StrT(x.v)>>
      [] x.t = "int"  -> <<NumT(x.v)>>
      [] x.t = "None" -> <<NullT>>
      [] x.t = "list" -> <<LBrack>> \o DumpItems(x.items, FALSE) \o <<RBrack>>
      [] x.t = "dict" -> <<LBrace>> \o DumpItems(x.items, TRUE) \o <<RBrace>>

DumpItems(items, keyed) ==
    IF items = <<>> THEN <<>>
    ELSE (IF keyed THEN <<StrT(items[1][1]), Colon>> \o Dumps(items[1][2])
          ELSE Dumps(items[1]))
         \o (IF Len(items) > 1 THEN <<CommaT>> ELSE <<>>)
         \o DumpItems(Tail(items), keyed)

M1 == Metric(<<"k">>, <<"d">>, <<"s">>, KindLine, <<"f">>)
M2 == Metric(<<"m">>, <<"d">>, <<"s">>, <<"P", "i", "e">>, <<"f">>)

\* M1 without its sql_query, with a visualization_type that is a number,
\* and with its name alone.
M1NoQuery == PyDict(SelectSeq(M1.items, LAMBDA kv : kv[1] # KQuery))
M1NumType == PyDict(DictSet(M1.items, KType, PyNum(<<"5">>)))
M1NameOnly == PyDict(<<<<KName, PyStr(<<"k">>)>>>>)

\* Replies of the expected shape.
ShapedReplies == {MetricSet(ms) : ms \in SeqUpTo({M1, M2}, MaxMetrics)}

\* Replies that are JSON of another shape.
MisshapedReplies ==
    {PyDict(<<>>), PyList(<<>>), PyNone, PyStr(<<"k">>), PyNum(<<"5">>),
     PyDict(<<<<<<"metric">>, PyList(<<M1>>)>>>>),
     PyDict(<<<<KMetrics, PyNone>>>>),
     PyDict(<<<<KMetrics, PyDict(<<>>)>>>>),
     PyDict(<<<<KMetrics, PyStr(<<"k">>)>>>>),
     MetricSet(<<M1NameOnly>>),
     MetricSet(<<M1, M1NoQuery>>),
     MetricSet(<<M2, M1NumType>>),
     MetricSet(<<M1, PyStr(<<"k">>)>>)}

\* Texts that are no JSON: a reply cut short, and a reply in prose.
CutReplies ==
    LET whole == Dumps(MetricSet(<<M1>>)) IN
    {SubSeq(whole, 1, n) : n \in 0..(Len(whole) - 1)}
ProseReplies ==
    {<<WordT(<<"Here">>)>> \o Dumps(MetricSet(<<M1>>)),
     Dumps(MetricSet(<<M1>>)) \o <<WordT(<<"Hope">>)>>,
     <<WordT(<<"Sorry">>)>>}

Reply(kind, text) == [kind |-> kind, text |-> text]

Services ==
    {Reply("error", <<>>), Reply("empty", <<>>)}
        \cup {Reply("text", Dumps(x)) : x \in ShapedReplies \cup MisshapedReplies}
        \cup {Reply("text", t) : t \in CutReplies \cup ProseReplies}

File(ext, utf8, content) == [ext |-> ext, utf8 |-> utf8, content |-> content]

SchemaText == <<SqlName, SqlSemi, NL, SqlDDL, SqlSpace, SqlName, SqlSemi>>

\* The sidebar's inputs: whether a key and a description were typed, and the
\* uploaded file, if any.
Inputs ==
    {[key |-> k, description |-> d, uploaded |-> u, file |-> f] :
        k \in BOOLEAN, d \in BOOLEAN, u \in BOOLEAN,
        f \in {File("sql", TRUE, SchemaText), File("txt", TRUE, SchemaText),
               File("sql", FALSE, <<>>)}}

Init ==
    /\ pc = "start"
    /\ inputs \in {i \in Inputs : i.uploaded \/ i.file = File("txt", TRUE, SchemaText)}
    /\ service \in Services
    /\ schema = <<>>
    /\ metrics = NotCalled
    /\ idx = 0
    /\ ui = <<>>
    /\ steps = <<>>
    /\ GenIdle /\ SqlIdle /\ VizIdle

\* The except clause of lines 238-239: the message is shown and main ends.
Fail == /\ ui' = Append(ui, "error")
        /\ pc' = "returned"

\* Lines 178-180.
CheckInputs ==
    /\ pc = "start"
    /\ IF ~inputs.key \/ ~inputs.uploaded \/ ~inputs.description
       THEN /\ ui' = Append(ui, "info")
            /\ pc' = "returned"
       ELSE /\ ui' = ui
            /\ pc' = "read"
    /\ UNCHANGED <<inputs, schema, service, metrics, idx, steps>>
    /\ UNCHANGED <<genVars, sqlVars, vizVars>>

\* Lines 184-189: the file is decoded and, when its name ends in .sql,
\* normalized.
ReadSchema ==
    /\ pc = "read"
    /\ IF ~inputs.file.utf8
       THEN /\ Fail
            /\ UNCHANGED <<schema, steps>>
       ELSE IF inputs.file.ext = "sql"
       THEN /\ schema' = parse_sql_file(inputs.file.content).val
            /\ steps' = Append(steps, "normalize")
            /\ ui' = ui
            /\ pc' = "analyze"
       ELSE /\ schema' = inputs.file.content
            /\ UNCHANGED <<steps, ui>>
            /\ pc' = "analyze"
    /\ UNCHANGED <<inputs, service, metrics, idx>>
    /\ UNCHANGED <<genVars, sqlVars, vizVars>>

\* Lines 192-193 with a second call after a call that failed.
Analyze_RetriesOnce ==
    /\ pc = "analyze"
    /\ metrics' = analyze_schema(schema, inputs.description, service)
    /\ steps' = steps \o (IF metrics'.exc # "" THEN <<"call", "call">> ELSE <<"call">>)
    /\ IF metrics'.exc # "" THEN Fail ELSE ui' = ui /\ pc' = "tabs"
    /\ UNCHANGED <<inputs, schema, service, idx>>
    /\ UNCHANGED <<genVars, sqlVars, vizVars>>

\* Lines 192-193: the one call of analyze_schema.
Analyze ==
    /\ pc = "analyze"
    /\ metrics' = analyze_schema(schema, inputs.description, service)
    /\ steps' = Append(steps, "call")
    /\ IF metrics'.exc # "" THEN Fail ELSE ui' = ui /\ pc' = "tabs"
    /\ UNCHANGED <<inputs, schema, service, idx>>
    /\ UNCHANGED <<genVars, sqlVars, vizVars>>

\* metrics['metrics'] as a for loop takes it (lines 201, 212).
MetricList(m) ==
    LET list == Subscript(m, KMetrics) IN
    IF list.exc # "" THEN Raise(list.exc) ELSE Iterate(list.val)

\* Lines 196-201: the three tabs, the first one's header, and the start of
\* its loop.
OpenTabs ==
    /\ pc = "tabs"
    /\ IF MetricList(metrics.val).exc # ""
       THEN /\ ui' = ui \o <<"tabs", "header1", "error">>
            /\ pc' = "returned"
       ELSE /\ ui' = ui \o <<"tabs", "header1">>
            /\ pc' = "tab1"
    /\ idx' = 0
    /\ UNCHANGED <<inputs, schema, service, metrics, steps>>
    /\ UNCHANGED <<genVars, sqlVars, vizVars>>

PanelKeys  == <<KName, KDescr, KFreq, KType, KQuery>>
PanelParts == <<"expander", "description", "frequency", "type", "sql">>

\* Lines 202-206 for one metric: the parts of its panel that are rendered,
\* up to the first field that cannot be read.
Panel(metric) ==
    LET bad == {k \in 1..5 : Subscript(metric, PanelKeys[k]).exc # ""} IN
    IF bad = {} THEN [exc |-> "", val |-> PanelParts]
    ELSE LET first == CHOOSE k \in bad : \A h \in bad : k <= h IN
         [exc |-> Subscript(metric, PanelKeys[first]).exc,
          val |-> SubSeq(PanelParts, 1, first - 1)]

\* Lines 201-206: one pass of the first tab's loop.
RenderMetric ==
    /\ pc = "tab1"
    /\ idx < Len(MetricList(metrics.val).val)
    /\ LET panel == Panel(MetricList(metrics.val).val[idx + 1]) IN
       IF panel.exc # ""
       THEN /\ ui' = ui \o panel.val \o <<"error">>
            /\ pc' = "returned"
            /\ idx' = idx
       ELSE /\ ui' = ui \o panel.val
            /\ pc' = pc
            /\ idx' = idx + 1
    /\ UNCHANGED <<inputs, schema, service, metrics, steps>>
    /\ UNCHANGED <<genVars, sqlVars, vizVars>>

\* Lines 209-212: the second tab's header and columns, and the start of its
\* loop.
OpenPreview ==
    /\ pc = "tab1"
    /\ idx = Len(MetricList(metrics.val).val)
    /\ ui' = ui \o <<"header2", "columns">>
    /\ pc' = "tab2"
    /\ idx' = 0
    /\ UNCHANGED <<inputs, schema, service, metrics, steps>>
    /\ UNCHANGED <<genVars, sqlVars, vizVars>>

\* Lines 212-216: one pass of the second tab's loop.
RenderChart ==
    /\ pc = "tab2"
    /\ idx < Len(MetricList(metrics.val).val)
    /\ \E seed \in 1..MaxSeed :
          LET fig == generate_sample_visualization(
                         MetricList(metrics.val).val[idx + 1], seed) IN
          IF fig.exc # ""
          THEN /\ Fail
               /\ idx' = idx
          ELSE /\ ui' = Append(ui, "chart")
               /\ pc' = pc
               /\ idx' = idx + 1
    /\ steps' = Append(steps, "visualize")
    /\ UNCHANGED <<inputs, schema, service, metrics>>
    /\ UNCHANGED <<genVars, sqlVars, vizVars>>

\* Lines 219-236: the third tab, with the generated code and its download.
ShowCode ==
    /\ pc = "tab2"
    /\ idx = Len(MetricList(metrics.val).val)
    /\ LET dashboard_code == generate_dashboard_code(metrics.val) IN
       IF dashboard_code.exc # ""
       THEN ui' = ui \o <<"header3", "notes", "error">>
       ELSE ui' = ui \o <<"header3", "notes", "code", "download">>
    /\ pc' = "returned"
    /\ steps' = Append(steps, "generate")
    /\ UNCHANGED <<inputs, schema, service, metrics, idx>>
    /\ UNCHANGED <<genVars, sqlVars, vizVars>>

Next ==
    \/ CheckInputs
    \/ ReadSchema
    \/ Analyze
    \/ OpenTabs
    \/ RenderMetric
    \/ OpenPreview
    \/ RenderChart
    \/ ShowCode

Spec == Init /\ [][Next]_vars

-----------------------------------------------------------------------------
(* Properties of one request, under Spec.                                  *)

NotJson(text) == text \in CutReplies \cup ProseReplies
Misshaped(text) == \E x \in MisshapedReplies : text = Dumps(x)

\* C2: when the reply's text is no JSON, analyze_schema raises the decoding
\* error and returns no MetricSet, an empty one included; main, its caller,
\* shows the error and nothing of a result.
C2_DecodingErrorPropagates ==
    (Called(metrics) /\ service.kind = "text" /\ NotJson(service.text)) =>
        /\ ~Returned(metrics)
        /\ metrics.exc = "JSONDecodeError"
        /\ metrics.val.t # "dict"
        /\ pc = "returned"
        /\ ui = <<"error">>

C2_Witness ==
    /\ Called(metrics) /\ service.kind = "text"
    /\ service.text \in CutReplies /\ Len(service.text) > 20
    /\ ui = <<"error">>

\* C3: when the reply is JSON of another shape than the expected one (no
\* metrics key, metrics no list of records, a metric without one of the
\* five fields), analyze_schema gives its caller a decoding error and not
\* the decoded value.
C3_MisshapedReplyIsDecodingError ==
    (Called(metrics) /\ service.kind = "text" /\ Misshaped(service.text)) =>
        /\ ~Returned(metrics)
        /\ metrics.exc = "JSONDecodeError"

DashboardParts ==
    {PanelParts[k] : k \in 1..Len(PanelParts)} \cup {"chart", "code", "download"}

Shown(part) == \E j \in 1..Len(ui) : ui[j] = part

\* C4: a request in which the error message is shown shows no part of the
\* dashboard: no metric panel, no sample chart, no generated code.
C4_ErrorShowsNoDashboardPart ==
    Shown("error") => \A part \in DashboardParts : ~Shown(part)

At(step) == {j \in 1..Len(steps) : steps[j] = step}

\* C10: in one request the service is called at most once; nothing follows
\* a call or a decoding that failed; the call comes after the Normalizer
\* step, which a .sql file always gets, and before every Visualizer and
\* Generator step.
C10_ServiceCalledAtMostOnce ==
    /\ Cardinality(At("call")) <= 1
    /\ \A c \in At("call") :
          /\ \A n \in At("normalize") : n < c
          /\ \A r \in At("visualize") \cup At("generate") : c < r
          /\ inputs.file.ext = "sql" => At("normalize") # {}
    /\ At("visualize") \cup At("generate") # {} => At("call") # {}
    /\ (Called(metrics) /\ ~Returned(metrics)) =>
          /\ pc = "returned"
          /\ steps[Len(steps)] = "call"
    /\ Called(metrics) <=> At("call") # {}

C10_Witness ==
    /\ pc = "returned"
    /\ steps = <<"normalize", "call", "visualize", "visualize", "generate">>

=============================================================================
